---- MODULE Spec2Model ----
(***************************************************************************)
(* Model of package sensor (sensor.go): the serialized USB HID exchange    *)
(* of QueryDeviceSensors and CheckDeviceWithoutQuery under the global      *)
(* mutex usbLock, and the response decoder getSensorDataFromBytes.         *)
(*                                                                         *)
(* Every goroutine calling into the package is a caller.  One invocation   *)
(* is a sequence of steps, one step per blocking or device operation of    *)
(* the source; the HID transport (Open, Write, Read, Close) is the         *)
(* environment and each of its outcomes is chosen nondeterministically.    *)
(***************************************************************************)
EXTENDS Integers, Sequences, FiniteSets, TLC

\* ---------------------------------------------------------------- bounds
NumCallers == 2        \* concurrent goroutines calling into the package
ShortCount == 10       \* byte count of a short transfer (write or read)

\* ------------------------------------------------------ program constants
NumChannels == 7
FrameLen == 64
AbsentMarker == 127

Callers == 1..NumCallers
Bytes == 0..255
FrameIdx == 0..(FrameLen - 1)

VARIABLES
    process,    \* "running", or how the process ended: "fatal" (log.Fatalln), "panic"
    usbLock,    \* sync.Mutex usbLock: 0 when unlocked, else the caller that locked it
    pc,         \* pc[p]: position of caller p inside its current invocation
    fn,         \* fn[p]: the function caller p is executing or has last executed
    device,     \* device[p]: the local handle: "nil", "open" or "closed"
    err,        \* err[p]: the local err: "nil", "open", "write" or "read"
    valid,      \* valid[p]: the local of CheckDeviceWithoutQuery
    response,   \* response[p]: the 64 byte read buffer
    sensors,    \* sensors[p]: the reading list being returned (<<>> is nil)
    devLog,     \* the transport operations and settle delays of every caller's
                \* current (or last) invocation, in execution order
    frame,      \* decoder harness: the response handed to getSensorDataFromBytes
    decoded     \* decoder harness: its result (<<>> before the call)

vars == <<process, usbLock, pc, fn, device, err, valid, response,
          sensors, devLog, frame, decoded>>

sessionVars == <<process, usbLock, pc, fn, device, err, valid, response,
                 sensors, devLog>>

\* ------------------------------------------------------------ the codec

\* make([]byte, 64)
ZeroFrame == [i \in FrameIdx |-> 0]

\* Faulty variant: the end marker is left out of the request.
getTempRequestBytes_NoEndMarker ==
    [i \in FrameIdx |-> CASE i = 0 -> 123
                          [] i = 1 -> 3
                          [] i = 2 -> 64
                          [] OTHER -> 0]

getTempRequestBytes ==
    [i \in FrameIdx |-> CASE i = 0 -> 123
                          [] i = 1 -> 3
                          [] i = 2 -> 64
                          [] i = 3 -> 125
                          [] OTHER -> 0]

\* binary.BigEndian.Uint16
BigEndianUint16(b0, b1) == b0 * 256 + b1

\* Faulty variant: the raw value is not reinterpreted as signed.
Int16_Unsigned(x) == x

\* the conversion int16(x) of a uint16
Int16(x) == IF x >= 32768 THEN x - 65536 ELSE x

\* A float32 value, kept as the exact fraction it was computed from.
Rat(n, d) == [num |-> n, den |-> d]
RatEq(a, b) == a.num * b.den = b.num * a.den

\* float32(x) / 10 for an int16 x: every int16 is exact in float32 and the
\* division is correctly rounded, so the result is the float32 nearest x/10
\* and distinct x give distinct results.
Float32Div10(x) == Rat(x, 10)

\* &Sensor{Channel: c, Temperature: t, Humidity: h, Absent: a}
Sensor(c, t, h, a) == [Channel |-> c, Temperature |-> t, Humidity |-> h, Absent |-> a]

\* Faulty variant: the slots are taken to start at byte 0.
decodeChannel_FromByteZero(resp, c) ==
    LET channelDataStart == c * 3
    IN  IF resp[channelDataStart] # AbsentMarker
        THEN LET temperatureRaw == BigEndianUint16(resp[channelDataStart],
                                                   resp[channelDataStart + 1])
                 temperatureSigned == Int16(temperatureRaw)
                 temperature == Float32Div10(temperatureSigned)
                 humidity == resp[channelDataStart + 2]
             IN  Sensor(c, temperature, humidity, FALSE)
        ELSE Sensor(c, Rat(0, 1), 0, TRUE)

\* Faulty variant: the absent marker is looked for in the slot's second byte.
decodeChannel_MarkerInSecondByte(resp, c) ==
    LET channelDataStart == 1 + (c * 3)
    IN  IF resp[channelDataStart + 1] # AbsentMarker
        THEN LET temperatureRaw == BigEndianUint16(resp[channelDataStart],
                                                   resp[channelDataStart + 1])
                 temperatureSigned == Int16(temperatureRaw)
                 temperature == Float32Div10(temperatureSigned)
                 humidity == resp[channelDataStart + 2]
             IN  Sensor(c, temperature, humidity, FALSE)
        ELSE Sensor(c, Rat(0, 1), 0, TRUE)

\* The loop body of getSensorDataFromBytes for channel c.
decodeChannel(resp, c) ==
    LET channelDataStart == 1 + (c * 3)
    IN  IF resp[channelDataStart] # AbsentMarker
        THEN LET temperatureRaw == BigEndianUint16(resp[channelDataStart],
                                                   resp[channelDataStart + 1])
                 temperatureSigned == Int16(temperatureRaw)
                 temperature == Float32Div10(temperatureSigned)
                 humidity == resp[channelDataStart + 2]
             IN  Sensor(c, temperature, humidity, FALSE)
        ELSE Sensor(c, Rat(0, 1), 0, TRUE)

\* Faulty variant: channels numbered from 1.
getSensorDataFromBytes_OneBased(resp) ==
    [c \in 0..(NumChannels - 1) |-> [decodeChannel(resp, c) EXCEPT !.Channel = c + 1]]

getSensorDataFromBytes(resp) ==
    [c \in 0..(NumChannels - 1) |-> decodeChannel(resp, c)]

\* ------------------------------------------------------- the environment

\* Responses the device firmware sends: all channels absent, and a hub with
\* channel 0 at 21.5 C / 40 %, channel 1 at -5.0 C / 255 %, the rest absent.
AllAbsent == [i \in FrameIdx |-> IF i \in 1..21 /\ i % 3 = 1 THEN AbsentMarker ELSE 0]

TwoSensors ==
    [i \in FrameIdx |-> CASE i = 1 -> 0   [] i = 2 -> 215 [] i = 3 -> 40
                          [] i = 4 -> 255 [] i = 5 -> 206 [] i = 6 -> 255
                          [] i \in {7, 10, 13, 16, 19} -> AbsentMarker
                          [] OTHER -> 0]

DeviceFrames == {AllAbsent, TwoSensors}

\* Byte counts a transfer of a 64 byte buffer reports when it reports no error.
TransferCounts == {ShortCount, FrameLen}

\* What (*hid.Device).Close does on the nil handle: a build that dereferences
\* the receiver panics, a build whose Close is a no-op returns nil.
NilCloseOutcomes == {"panic", "nil"}

\* One entry of devLog.
Ev(p, op, ok, n, data) ==
    [caller |-> p, fn |-> fn[p], op |-> op, dev |-> device[p],
     ok |-> ok, n |-> n, data |-> data]

\* devLog without the entries of caller p's previous invocation.
Forget(log, p) == SelectSeq(log, LAMBDA e : e.caller # p)

\* --------------------------------------------------------------- closeDevice

\* Faulty variant: a Close error is logged and the call carries on.
closeDevice_NonFatal(p, next) ==
    \/ /\ device[p] = "open"
       /\ \E ok \in BOOLEAN :
            /\ devLog' = Append(devLog, Ev(p, "close", ok, 0, <<>>))
            /\ IF ok
               THEN /\ device' = [device EXCEPT ![p] = "closed"]
                    /\ pc' = [pc EXCEPT ![p] = next]
                    /\ UNCHANGED process
               ELSE /\ pc' = [pc EXCEPT ![p] = next]
                    /\ UNCHANGED <<device, process>>
    \/ /\ device[p] = "nil"
       /\ \E outcome \in NilCloseOutcomes :
            /\ devLog' = Append(devLog, Ev(p, "close", outcome = "nil", 0, <<>>))
            /\ IF outcome = "nil"
               THEN /\ pc' = [pc EXCEPT ![p] = next]
                    /\ UNCHANGED process
               ELSE /\ process' = "panic"
                    /\ UNCHANGED pc
            /\ UNCHANGED device

\* closeDevice(device), then continue at next.  A Close error is log.Fatalln:
\* the process exits inside the call.
closeDevice(p, next) ==
    \/ /\ device[p] = "open"
       /\ \E ok \in BOOLEAN :
            /\ devLog' = Append(devLog, Ev(p, "close", ok, 0, <<>>))
            /\ IF ok
               THEN /\ device' = [device EXCEPT ![p] = "closed"]
                    /\ pc' = [pc EXCEPT ![p] = next]
                    /\ UNCHANGED process
               ELSE /\ process' = "fatal"
                    /\ UNCHANGED <<device, pc>>
    \/ /\ device[p] = "nil"
       /\ \E outcome \in NilCloseOutcomes :
            /\ devLog' = Append(devLog, Ev(p, "close", outcome = "nil", 0, <<>>))
            /\ IF outcome = "nil"
               THEN /\ pc' = [pc EXCEPT ![p] = next]
                    /\ UNCHANGED process
               ELSE /\ process' = "panic"
                    /\ UNCHANGED pc
            /\ UNCHANGED device

\* ---------------------------------------------------- CheckDeviceWithoutQuery

\* func CheckDeviceWithoutQuery(deviceInfo) bool { valid := true
CallCheckDeviceWithoutQuery(p) ==
    /\ process = "running"
    /\ pc[p] \in {"idle", "returned"}
    /\ fn' = [fn EXCEPT ![p] = "Check"]
    /\ pc' = [pc EXCEPT ![p] = "c_lock"]
    /\ device' = [device EXCEPT ![p] = "nil"]
    /\ err' = [err EXCEPT ![p] = "nil"]
    /\ valid' = [valid EXCEPT ![p] = TRUE]
    /\ response' = [response EXCEPT ![p] = ZeroFrame]
    /\ sensors' = [sensors EXCEPT ![p] = <<>>]
    /\ devLog' = Forget(devLog, p)
    /\ UNCHANGED <<process, usbLock, frame, decoded>>

\* usbLock.Lock()
CheckLock(p) ==
    /\ process = "running"
    /\ pc[p] = "c_lock"
    /\ usbLock = 0
    /\ usbLock' = p
    /\ pc' = [pc EXCEPT ![p] = "c_open"]
    /\ UNCHANGED <<process, fn, device, err, valid, response, sensors,
                   devLog, frame, decoded>>

\* Faulty variant: the check probes an opened device with a full exchange.
CheckOpen_ThenQuery(p) ==
    /\ process = "running"
    /\ pc[p] = "c_open"
    /\ \E ok \in BOOLEAN :
         /\ devLog' = Append(devLog, Ev(p, "open", ok, 0, <<>>))
         /\ device' = [device EXCEPT ![p] = IF ok THEN "open" ELSE "nil"]
         /\ err' = [err EXCEPT ![p] = IF ok THEN "nil" ELSE "open"]
         /\ valid' = [valid EXCEPT ![p] = ok]
    /\ pc' = [pc EXCEPT ![p] = IF device'[p] = "open" THEN "q_write" ELSE "c_close"]
    /\ UNCHANGED <<process, usbLock, fn, response, sensors, frame, decoded>>

\* device, err := deviceInfo[0].Open(); if err != nil { valid = false }
CheckOpen(p) ==
    /\ process = "running"
    /\ pc[p] = "c_open"
    /\ \E ok \in BOOLEAN :
         /\ devLog' = Append(devLog, Ev(p, "open", ok, 0, <<>>))
         /\ device' = [device EXCEPT ![p] = IF ok THEN "open" ELSE "nil"]
         /\ err' = [err EXCEPT ![p] = IF ok THEN "nil" ELSE "open"]
         /\ valid' = [valid EXCEPT ![p] = ok]
    /\ pc' = [pc EXCEPT ![p] = "c_close"]
    /\ UNCHANGED <<process, usbLock, fn, response, sensors, frame, decoded>>

\* closeDevice(device)
CheckClose(p) ==
    /\ process = "running"
    /\ pc[p] = "c_close"
    /\ closeDevice(p, "c_unlock")
    /\ UNCHANGED <<usbLock, fn, err, valid, response, sensors, frame, decoded>>

\* usbLock.Unlock(); return valid
CheckUnlock(p) ==
    /\ process = "running"
    /\ pc[p] = "c_unlock"
    /\ usbLock' = 0
    /\ pc' = [pc EXCEPT ![p] = "returned"]
    /\ UNCHANGED <<process, fn, device, err, valid, response, sensors,
                   devLog, frame, decoded>>

\* -------------------------------------------------------- QueryDeviceSensors

\* func QueryDeviceSensors(deviceInfo) ([]*Sensor, error) {
CallQueryDeviceSensors(p) ==
    /\ process = "running"
    /\ pc[p] \in {"idle", "returned"}
    /\ fn' = [fn EXCEPT ![p] = "Query"]
    /\ pc' = [pc EXCEPT ![p] = "q_lock"]
    /\ device' = [device EXCEPT ![p] = "nil"]
    /\ err' = [err EXCEPT ![p] = "nil"]
    /\ valid' = [valid EXCEPT ![p] = TRUE]
    /\ response' = [response EXCEPT ![p] = ZeroFrame]
    /\ sensors' = [sensors EXCEPT ![p] = <<>>]
    /\ devLog' = Forget(devLog, p)
    /\ UNCHANGED <<process, usbLock, frame, decoded>>

\* Faulty variant: a Lock that does not wait for the holder.
QueryLock_NoExclusion(p) ==
    /\ process = "running"
    /\ pc[p] = "q_lock"
    /\ usbLock' = p
    /\ pc' = [pc EXCEPT ![p] = "q_open"]
    /\ UNCHANGED <<process, fn, device, err, valid, response, sensors,
                   devLog, frame, decoded>>

\* usbLock.Lock()
QueryLock(p) ==
    /\ process = "running"
    /\ pc[p] = "q_lock"
    /\ usbLock = 0
    /\ usbLock' = p
    /\ pc' = [pc EXCEPT ![p] = "q_open"]
    /\ UNCHANGED <<process, fn, device, err, valid, response, sensors,
                   devLog, frame, decoded>>

\* device, err := deviceInfo[0].Open(); if err != nil { return nil, err }
\* defer usbLock.Unlock(); defer closeDevice(device)
QueryOpen(p) ==
    /\ process = "running"
    /\ pc[p] = "q_open"
    /\ \E ok \in BOOLEAN :
         /\ devLog' = Append(devLog, Ev(p, "open", ok, 0, <<>>))
         /\ device' = [device EXCEPT ![p] = IF ok THEN "open" ELSE "nil"]
         /\ err' = [err EXCEPT ![p] = IF ok THEN "nil" ELSE "open"]
         /\ pc' = [pc EXCEPT ![p] = IF ok THEN "q_write" ELSE "returned"]
    /\ UNCHANGED <<process, usbLock, fn, valid, response, sensors, frame, decoded>>

\* Faulty variant: the close is registered after the write, so a failed write skips it.
QueryWrite_NoCloseOnError(p) ==
    /\ process = "running"
    /\ pc[p] = "q_write"
    /\ \/ /\ devLog' = Append(devLog, Ev(p, "write", FALSE, 0, getTempRequestBytes))
          /\ err' = [err EXCEPT ![p] = "write"]
          /\ pc' = [pc EXCEPT ![p] = "q_unlock"]
       \/ \E writtenBytes \in TransferCounts :
            /\ devLog' = Append(devLog, Ev(p, "write", TRUE, writtenBytes,
                                           getTempRequestBytes))
            /\ err' = [err EXCEPT ![p] = "nil"]
            /\ pc' = [pc EXCEPT ![p] = "q_sleep"]
    /\ UNCHANGED <<process, usbLock, fn, device, valid, response, sensors,
                   frame, decoded>>

\* Faulty variant: a failed write is tried a second time.
QueryWrite_RetryOnce(p) ==
    /\ process = "running"
    /\ pc[p] = "q_write"
    /\ \/ /\ devLog' = Append(devLog, Ev(p, "write", FALSE, 0, getTempRequestBytes))
          /\ err' = [err EXCEPT ![p] = "write"]
          /\ pc' = [pc EXCEPT ![p] = IF Len(SelectSeq(devLog, LAMBDA e : e.caller = p
                                                                      /\ e.op = "write")) = 0
                                      THEN "q_write" ELSE "q_close"]
       \/ \E writtenBytes \in TransferCounts :
            /\ devLog' = Append(devLog, Ev(p, "write", TRUE, writtenBytes,
                                           getTempRequestBytes))
            /\ err' = [err EXCEPT ![p] = "nil"]
            /\ pc' = [pc EXCEPT ![p] = "q_sleep"]
    /\ UNCHANGED <<process, usbLock, fn, device, valid, response, sensors,
                   frame, decoded>>

\* writtenBytes, err := device.Write(getTempRequestBytes())
\* if err != nil { return nil, err }
QueryWrite(p) ==
    /\ process = "running"
    /\ pc[p] = "q_write"
    /\ \/ /\ devLog' = Append(devLog, Ev(p, "write", FALSE, 0, getTempRequestBytes))
          /\ err' = [err EXCEPT ![p] = "write"]
          /\ pc' = [pc EXCEPT ![p] = "q_close"]
       \/ \E writtenBytes \in TransferCounts :
            /\ devLog' = Append(devLog, Ev(p, "write", TRUE, writtenBytes,
                                           getTempRequestBytes))
            /\ err' = [err EXCEPT ![p] = "nil"]
            /\ pc' = [pc EXCEPT ![p] = "q_sleep"]
    /\ UNCHANGED <<process, usbLock, fn, device, valid, response, sensors,
                   frame, decoded>>

\* Faulty variant: the lock is given up for the settle delay.
QuerySleep_Unlocked(p) ==
    /\ process = "running"
    /\ pc[p] = "q_sleep"
    /\ devLog' = Append(devLog, Ev(p, "sleep", TRUE, 0, <<>>))
    /\ usbLock' = 0
    /\ pc' = [pc EXCEPT ![p] = "q_read"]
    /\ UNCHANGED <<process, fn, device, err, valid, response,
                   sensors, frame, decoded>>

\* time.Sleep(500 * time.Millisecond)
QuerySleep(p) ==
    /\ process = "running"
    /\ pc[p] = "q_sleep"
    /\ devLog' = Append(devLog, Ev(p, "sleep", TRUE, 0, <<>>))
    /\ pc' = [pc EXCEPT ![p] = "q_read"]
    /\ UNCHANGED <<process, usbLock, fn, device, err, valid, response,
                   sensors, frame, decoded>>

\* The buffer after a read that delivered the first n bytes of data.
Delivered(data, n) == [i \in FrameIdx |-> IF i < n THEN data[i] ELSE 0]

\* Faulty variant: the read error is logged but the buffer is decoded and returned too.
QueryRead_DecodeOnError(p) ==
    /\ process = "running"
    /\ pc[p] = "q_read"
    /\ \/ /\ devLog' = Append(devLog, Ev(p, "read", FALSE, 0, <<>>))
          /\ err' = [err EXCEPT ![p] = "read"]
          /\ sensors' = [sensors EXCEPT ![p] = getSensorDataFromBytes(response[p])]
          /\ UNCHANGED response
       \/ \E readBytes \in TransferCounts, data \in DeviceFrames :
            /\ devLog' = Append(devLog, Ev(p, "read", TRUE, readBytes, <<>>))
            /\ err' = [err EXCEPT ![p] = "nil"]
            /\ response' = [response EXCEPT ![p] = Delivered(data, readBytes)]
            /\ sensors' = [sensors EXCEPT
                              ![p] = getSensorDataFromBytes(Delivered(data, readBytes))]
    /\ pc' = [pc EXCEPT ![p] = "q_close"]
    /\ UNCHANGED <<process, usbLock, fn, device, valid, frame, decoded>>

\* response := make([]byte, 64); readBytes, err := device.Read(response)
\* if err != nil { return nil, err }
\* sensorData := getSensorDataFromBytes(response); return sensorData, nil
QueryRead(p) ==
    /\ process = "running"
    /\ pc[p] = "q_read"
    /\ \/ /\ devLog' = Append(devLog, Ev(p, "read", FALSE, 0, <<>>))
          /\ err' = [err EXCEPT ![p] = "read"]
          /\ UNCHANGED <<response, sensors>>
       \/ \E readBytes \in TransferCounts, data \in DeviceFrames :
            /\ devLog' = Append(devLog, Ev(p, "read", TRUE, readBytes, <<>>))
            /\ err' = [err EXCEPT ![p] = "nil"]
            /\ response' = [response EXCEPT ![p] = Delivered(data, readBytes)]
            /\ sensors' = [sensors EXCEPT
                              ![p] = getSensorDataFromBytes(Delivered(data, readBytes))]
    /\ pc' = [pc EXCEPT ![p] = "q_close"]
    /\ UNCHANGED <<process, usbLock, fn, device, valid, frame, decoded>>

\* Faulty variant: the two defers are registered in the other order, so the
\* unlock runs first and the close after it.
QueryClose_AfterUnlock(p) ==
    /\ process = "running"
    /\ pc[p] = "q_close"
    /\ IF usbLock = p
       THEN /\ usbLock' = 0
            /\ UNCHANGED <<process, pc, device, devLog>>
       ELSE /\ closeDevice(p, "returned")
            /\ UNCHANGED usbLock
    /\ UNCHANGED <<fn, err, valid, response, sensors, frame, decoded>>

\* deferred closeDevice(device)
QueryClose(p) ==
    /\ process = "running"
    /\ pc[p] = "q_close"
    /\ closeDevice(p, "q_unlock")
    /\ UNCHANGED <<usbLock, fn, err, valid, response, sensors, frame, decoded>>

\* deferred usbLock.Unlock(), then the return reaches the caller
QueryUnlock(p) ==
    /\ process = "running"
    /\ pc[p] = "q_unlock"
    /\ usbLock' = 0
    /\ pc' = [pc EXCEPT ![p] = "returned"]
    /\ UNCHANGED <<process, fn, device, err, valid, response, sensors,
                   devLog, frame, decoded>>

\* ------------------------------------------------------------ specification

Init ==
    /\ process = "running"
    /\ usbLock = 0
    /\ pc = [p \in Callers |-> "idle"]
    /\ fn = [p \in Callers |-> "none"]
    /\ device = [p \in Callers |-> "nil"]
    /\ err = [p \in Callers |-> "nil"]
    /\ valid = [p \in Callers |-> TRUE]
    /\ response = [p \in Callers |-> ZeroFrame]
    /\ sensors = [p \in Callers |-> <<>>]
    /\ devLog = <<>>
    /\ frame = ZeroFrame
    /\ decoded = <<>>

Next ==
    \E p \in Callers :
        \/ CallCheckDeviceWithoutQuery(p)
        \/ CheckLock(p)
        \/ CheckOpen(p)
        \/ CheckClose(p)
        \/ CheckUnlock(p)
        \/ CallQueryDeviceSensors(p)
        \/ QueryLock(p)
        \/ QueryOpen(p)
        \/ QueryWrite(p)
        \/ QuerySleep(p)
        \/ QueryRead(p)
        \/ QueryClose(p)
        \/ QueryUnlock(p)

Spec == Init /\ [][Next]_vars

\* ------------------------------------------- specification for liveness

\* The steps of caller p inside an invocation, other than taking the lock.
Proceed(p) ==
    \/ CheckOpen(p)
    \/ CheckClose(p)
    \/ CheckUnlock(p)
    \/ QueryOpen(p)
    \/ QueryWrite(p)
    \/ QuerySleep(p)
    \/ QueryRead(p)
    \/ QueryClose(p)
    \/ QueryUnlock(p)

\* The steps of the program when no Close ends the process: on every handle
\* Close returns without an error.
NextLive ==
    \E p \in Callers :
        \/ CallCheckDeviceWithoutQuery(p)
        \/ CheckLock(p)
        \/ CheckOpen(p)
        \/ CheckClose(p) /\ process' = "running"
        \/ CheckUnlock(p)
        \/ CallQueryDeviceSensors(p)
        \/ QueryLock(p)
        \/ QueryOpen(p)
        \/ QueryWrite(p)
        \/ QuerySleep(p)
        \/ QueryRead(p)
        \/ QueryClose(p) /\ process' = "running"
        \/ QueryUnlock(p)

\* Every transport call returns and goroutines are scheduled fairly, so a
\* caller inside an invocation takes its next step; sync.Mutex hands the
\* lock to a waiter that keeps finding it released (starvation mode).
Fairness ==
    \A p \in Callers :
        /\ WF_vars(Proceed(p) /\ process' = "running")
        /\ SF_vars(CheckLock(p))
        /\ SF_vars(QueryLock(p))

SpecLive == Init /\ [][NextLive]_vars /\ Fairness

\* ---------------------------------------------------------- decoder harness

\* The 64 byte response whose slot of channel c is <<b0, b1, b2>> and whose
\* other bytes all are bg.
SlotFrame(bg, c, slot) ==
    [i \in FrameIdx |-> CASE i = 1 + 3 * c -> slot[1]
                          [] i = 2 + 3 * c -> slot[2]
                          [] i = 3 + 3 * c -> slot[3]
                          [] OTHER -> bg]

\* The response in which exactly the channels of A are absent and every other
\* channel c reports 2c.0 C and c %.
MaskFrame(A) ==
    [i \in FrameIdx |-> IF i \in 1..(3 * NumChannels)
                        THEN LET c == (i - 1) \div 3
                                 k == (i - 1) % 3
                             IN  CASE k = 0 -> IF c \in A THEN AbsentMarker ELSE 0
                                   [] k = 1 -> 20 * c
                                   [] OTHER -> c
                        ELSE 0]

EdgeBytes == {0, 1, 126, 127, 128, 255}

TestSlots ==
    (EdgeBytes \X {0, 206, 215, 255} \X {0, 127, 255})
        \cup {<<0, 215, v>> : v \in Bytes}
        \cup {<<h, 206, 50>> : h \in Bytes}
        \cup {<<255, l, 50>> : l \in Bytes}

TestFrames ==
    {SlotFrame(bg, c, slot) : bg \in {0, AbsentMarker, 255},
                              c \in 0..(NumChannels - 1), slot \in TestSlots}
        \cup {MaskFrame(A) : A \in SUBSET (0..(NumChannels - 1))}

InitDecode ==
    /\ process = "running"
    /\ usbLock = 0
    /\ pc = [p \in Callers |-> "idle"]
    /\ fn = [p \in Callers |-> "none"]
    /\ device = [p \in Callers |-> "nil"]
    /\ err = [p \in Callers |-> "nil"]
    /\ valid = [p \in Callers |-> TRUE]
    /\ response = [p \in Callers |-> ZeroFrame]
    /\ sensors = [p \in Callers |-> <<>>]
    /\ devLog = <<>>
    /\ frame \in TestFrames
    /\ decoded = <<>>

\* sensorData := getSensorDataFromBytes(response)
DecodeFrame ==
    /\ decoded = <<>>
    /\ decoded' = getSensorDataFromBytes(frame)
    /\ UNCHANGED <<sessionVars, frame>>

NextDecode == DecodeFrame

SpecDecode == InitDecode /\ [][NextDecode]_vars

\* ------------------------------------------------------------------ claims

\* The devLog entries of caller p's current (or last) invocation, in order.
Mine(p) == SelectSeq(devLog, LAMBDA e : e.caller = p)

\* Caller p's invocation has an entry of operation op with outcome ok.
Did(p, op, ok) == \E i \in 1..Len(Mine(p)) : Mine(p)[i].op = op /\ Mine(p)[i].ok = ok

\* The number of entries of operation op in caller p's invocation.
Count(p, op) == Cardinality({i \in 1..Len(Mine(p)) : Mine(p)[i].op = op})

\* The operations of caller p's invocation, in order.
Ops(p) == [i \in 1..Len(Mine(p)) |-> Mine(p)[i].op]

IsPrefix(a, b) == Len(a) <= Len(b) /\ \A i \in 1..Len(a) : a[i] = b[i]

\* C1: at most one caller is between its device open and its device close,
\* and in the order of execution the steps of one invocation are contiguous:
\* no step of another caller falls between two steps of the same invocation.
C1_Serialized ==
    /\ Cardinality({p \in Callers : device[p] = "open"}) <= 1
    /\ \A i, j, k \in 1..Len(devLog) :
         (i < j /\ j < k /\ devLog[i].caller = devLog[k].caller)
             => devLog[j].caller = devLog[i].caller

\* C1 witness: one caller has written to its open device while another caller
\* has called in and waits for the lock.
C1_Witness ==
    \E p, q \in Callers :
        /\ p # q
        /\ device[p] = "open"
        /\ Did(p, "write", TRUE)
        /\ pc[q] \in {"q_lock", "c_lock"}

\* C2: a call that has returned to its caller no longer holds usbLock.
C2_LockReleasedOnReturn ==
    \A p \in Callers : pc[p] = "returned" => usbLock # p

\* C3: QueryDeviceSensors returns readings or an error, never both and never
\* neither; an error reported by open, write or read is returned with nil
\* readings, and readings are returned only when none of the three failed.
C3_ReadingsXorError ==
    \A p \in Callers :
        (fn[p] = "Query" /\ pc[p] = "returned") =>
            /\ (sensors[p] = <<>>) <=> (err[p] # "nil")
            /\ \A op \in {"open", "write", "read"} :
                 Did(p, op, FALSE) => (err[p] = op /\ sensors[p] = <<>>)
            /\ sensors[p] # <<>> =>
                 /\ Did(p, "open", TRUE) /\ Did(p, "write", TRUE) /\ Did(p, "read", TRUE)
                 /\ DOMAIN sensors[p] = 0..6

\* C3 witness: a query whose read failed has returned the error.
C3_Witness ==
    \E p \in Callers :
        /\ fn[p] = "Query" /\ pc[p] = "returned"
        /\ Did(p, "read", FALSE)
        /\ err[p] = "read"

\* C4: in QueryDeviceSensors a handle that was opened gets exactly one close
\* attempt before the call returns (after a failed write too, which returns
\* an error), never more than one, and a failed open gets none.
C4_OneCloseAttempt ==
    \A p \in Callers :
        fn[p] = "Query" =>
            /\ Count(p, "close") <= 1
            /\ Did(p, "open", FALSE) => Count(p, "close") = 0
            /\ (pc[p] = "returned" /\ Did(p, "open", TRUE)) => Count(p, "close") = 1
            /\ (pc[p] = "returned" /\ Did(p, "write", FALSE)) =>
                   (err[p] # "nil" /\ Count(p, "close") = 1)
            /\ \A i \in 1..Len(Mine(p)) :
                 Mine(p)[i].op = "close" => Mine(p)[i].dev = "open"

\* C4 witness: a query whose write failed has returned after its one close.
C4_Witness ==
    \E p \in Callers :
        /\ fn[p] = "Query" /\ pc[p] = "returned"
        /\ Did(p, "write", FALSE)
        /\ Count(p, "close") = 1

\* C5: the events of one QueryDeviceSensors call are open, write, settle
\* delay, read, close in that order; a read follows only a write without
\* error and the delay after it; the close comes last; and the caller holds
\* usbLock from before the write until after the read, the delay included.
C5_ExchangeOrder ==
    \A p \in Callers :
        fn[p] = "Query" =>
            /\ \/ IsPrefix(Ops(p), <<"open", "write", "sleep", "read", "close">>)
               \/ Ops(p) = <<"open", "write", "close">>
            /\ Did(p, "read", TRUE) \/ Did(p, "read", FALSE) =>
                 (Did(p, "write", TRUE) /\ Did(p, "sleep", TRUE))
            /\ pc[p] \in {"q_write", "q_sleep", "q_read", "q_close"} => usbLock = p

\* C5 witness: a query that ran the whole exchange and is about to unlock.
C5_Witness ==
    \E p \in Callers :
        /\ fn[p] = "Query" /\ pc[p] = "q_unlock"
        /\ Ops(p) = <<"open", "write", "sleep", "read", "close">>

\* The process ended inside caller p's closeDevice.
AbortedInClose(p) ==
    /\ process # "running"
    /\ pc[p] \in {"c_close", "q_close"}
    /\ Did(p, "close", FALSE)

\* C6: CheckDeviceWithoutQuery returns true when the open succeeded and false
\* when it failed: what a returned check reports is the outcome of its open,
\* and a check whose open failed goes on to return.
C6_CheckReportsOpen ==
    \A p \in Callers :
        fn[p] = "Check" =>
            /\ pc[p] = "returned" => valid[p] = Did(p, "open", TRUE)
            /\ Did(p, "open", FALSE) => ~AbortedInClose(p)

\* C7: a reachability check opens and closes and nothing else: it sends no
\* request frame and reads no response bytes.
C7_CheckOnlyOpensAndCloses ==
    /\ \A i \in 1..Len(devLog) :
         devLog[i].fn = "Check" =>
             /\ devLog[i].op \in {"open", "close"}
             /\ devLog[i].n = 0
             /\ devLog[i].data = <<>>
    /\ \A p \in Callers :
         fn[p] = "Check" => (response[p] = ZeroFrame /\ sensors[p] = <<>>)

\* C7 witness: a check that found the device has returned.
C7_Witness ==
    \E p \in Callers :
        /\ fn[p] = "Check" /\ pc[p] = "returned" /\ valid[p]
        /\ Ops(p) = <<"open", "close">>

\* C8: a failed close attempt ends the process: the failing call has not
\* returned, its close is the last operation in the log, and once the
\* process has ended no caller takes any further step.
C8_FailedCloseState ==
    \A p \in Callers :
        Did(p, "close", FALSE) =>
            /\ process # "running"
            /\ pc[p] \in {"c_close", "q_close"}
            /\ devLog[Len(devLog)].caller = p
            /\ devLog[Len(devLog)].op = "close"

C8_CloseFailureIsFatal ==
    /\ []C8_FailedCloseState
    /\ [][process = "running"]_vars

\* C8 witness: the close of a query failed while another caller was waiting.
C8_Witness ==
    \E p, q \in Callers :
        /\ p # q
        /\ fn[p] = "Query" /\ device[p] = "open" /\ Did(p, "close", FALSE)
        /\ process = "fatal"
        /\ pc[q] \in {"q_lock", "c_lock"}


\* The slot of channel c in a response: its bytes at 1+3c, 2+3c and 3+3c.
SlotOf(resp, c) == <<resp[1 + 3 * c], resp[2 + 3 * c], resp[3 + 3 * c]>>

\* The big-endian two's-complement signed 16 bit value of the bytes hi, lo.
Signed16BE(hi, lo) == IF hi >= 128 THEN (hi - 256) * 256 + lo ELSE hi * 256 + lo

\* C9: every decode of a 64 byte response yields exactly 7 readings, and the
\* reading at index c has Channel = c, however many channels are absent.
C9_SevenReadingsInOrder ==
    decoded # <<>> =>
        /\ DOMAIN decoded = 0..6
        /\ Cardinality(DOMAIN decoded) = 7
        /\ \A c \in DOMAIN decoded : decoded[c].Channel = c

\* C9 witness: a decoded response with some channels absent and some present.
C9_Witness ==
    /\ decoded # <<>>
    /\ Cardinality({c \in DOMAIN decoded : decoded[c].Absent}) = 3
    /\ decoded[6].Channel = 6

\* C10: a channel whose first slot byte is not 0x7F is present, its
\* temperature is the big-endian signed 16 bit value of its first two bytes
\* divided by 10 (00 D7 is 21.5, FF CE is -5.0, never beyond 3276.7), and its
\* humidity is its third byte.
C10_PresentChannelValues ==
    decoded # <<>> =>
        \A c \in 0..6 :
            LET slot == SlotOf(frame, c)
                r == decoded[c]
            IN  slot[1] # 127 =>
                    /\ r.Absent = FALSE
                    /\ RatEq(r.Temperature, Rat(Signed16BE(slot[1], slot[2]), 10))
                    /\ r.Temperature.den > 0
                    /\ r.Temperature.num * 10 <= 32767 * r.Temperature.den
                    /\ r.Temperature.num * 10 >= -32768 * r.Temperature.den
                    /\ (slot[1] = 0 /\ slot[2] = 215 => RatEq(r.Temperature, Rat(43, 2)))
                    /\ (slot[1] = 255 /\ slot[2] = 206 => RatEq(r.Temperature, Rat(-5, 1)))
                    /\ r.Humidity = slot[3]

\* C10 witness: the negative example FF CE decoded, with humidity 255.
C10_Witness ==
    /\ decoded # <<>>
    /\ \E c \in 0..6 :
         /\ SlotOf(frame, c) = <<255, 206, 255>>
         /\ decoded[c].Temperature.num = -50
         /\ decoded[c].Humidity = 255

\* C11: the reading of channel c is absent exactly when response[1+3c] is
\* 0x7F, whatever the slot's other two bytes are, and an absent reading has
\* its channel set and temperature and humidity zero.
C11_AbsentIffMarker ==
    decoded # <<>> =>
        \A c \in 0..6 :
            /\ decoded[c].Absent <=> (frame[1 + 3 * c] = 127)
            /\ decoded[c].Absent =>
                 /\ decoded[c].Channel = c
                 /\ RatEq(decoded[c].Temperature, Rat(0, 1))
                 /\ decoded[c].Humidity = 0

\* C11 witness: a slot 7F FF FF decoded as absent beside a present channel.
C11_Witness ==
    /\ decoded # <<>>
    /\ \E c, d \in 0..6 :
         /\ SlotOf(frame, c) = <<127, 255, 255>> /\ decoded[c].Absent
         /\ d # c /\ ~decoded[d].Absent

\* C12: every write a query issues carries the same 64 byte frame,
\* 7B 03 40 7D followed by 60 zero bytes, whatever came before it.
C12_RequestFrameFixed ==
    \A i \in 1..Len(devLog) :
        devLog[i].op = "write" =>
            /\ devLog[i].fn = "Query"
            /\ DOMAIN devLog[i].data = 0..63
            /\ devLog[i].data[0] = 123 /\ devLog[i].data[1] = 3
            /\ devLog[i].data[2] = 64 /\ devLog[i].data[3] = 125
            /\ \A k \in 4..63 : devLog[i].data[k] = 0

\* C12 witness: a query writes its request after another caller's query has
\* returned readings.
C12_Witness ==
    \E p, q \in Callers :
        /\ p # q
        /\ pc[q] = "returned" /\ sensors[q] # <<>>
        /\ pc[p] = "q_sleep" /\ Did(p, "write", TRUE)
        /\ devLog[Len(devLog)].op = "write"

\* C13: a write that transfers fewer than 64 bytes is a write failure: the
\* query issues no read after it and returns an error and no readings, after
\* closing the device.
C13_ShortWriteIsFailure ==
    \A p \in Callers :
        (fn[p] = "Query"
           /\ \E i \in 1..Len(Mine(p)) : Mine(p)[i].op = "write" /\ Mine(p)[i].n < 64) =>
            /\ Count(p, "read") = 0
            /\ pc[p] = "returned" =>
                 (err[p] # "nil" /\ sensors[p] = <<>> /\ Count(p, "close") = 1)

\* C14: a read that delivers fewer than 22 bytes yields a decoding error and
\* no readings: no reading is built from slot bytes the read did not deliver.
C14_ShortReadIsError ==
    \A p \in Callers :
        (fn[p] = "Query"
           /\ \E i \in 1..Len(Mine(p)) :
                /\ Mine(p)[i].op = "read" /\ Mine(p)[i].ok
                /\ Mine(p)[i].n < 1 + 3 * NumChannels) =>
            /\ sensors[p] = <<>>
            /\ pc[p] = "returned" => err[p] # "nil"

\* C15: a handle is open only while its opener holds usbLock, at most one
\* handle is open in the process, and a query attempts its close before it
\* releases the lock: no step releases the lock of a caller whose handle is
\* open, and a query that opened a handle has logged its close when it unlocks.
C15_HandleInsideLock ==
    /\ [](\A p \in Callers : device[p] = "open" => usbLock = p)
    /\ [](\A p, q \in Callers : (device[p] = "open" /\ device[q] = "open") => p = q)
    /\ [](\A p \in Callers :
            (fn[p] = "Query" /\ pc[p] = "q_unlock") =>
                (usbLock = p /\ Count(p, "close") = 1 /\ device[p] = "closed"))
    /\ [][\A p \in Callers :
            (usbLock = p /\ usbLock' # p) => (device[p] # "open" /\ device'[p] # "open")]_vars

\* C15 witness: a query has closed its handle and still holds the lock while
\* another caller waits for it.
C15_Witness ==
    \E p, q \in Callers :
        /\ p # q
        /\ fn[p] = "Query" /\ pc[p] = "q_unlock" /\ device[p] = "closed" /\ usbLock = p
        /\ pc[q] \in {"q_lock", "c_lock"}

\* The entries of caller p's invocation that come after its first failed one.
AfterFailure(p) ==
    LET m == Mine(p)
        failed == {i \in 1..Len(m) : ~m[i].ok}
    IN  IF failed = {} THEN {}
        ELSE {m[j].op : j \in {k \in 1..Len(m) : \A i \in failed : k > i}}

\* C16: no retries: one invocation performs each of open, write, read and
\* close at most once (a check: open and close only), and after the first
\* failing step of an invocation no write or read follows.
C16_NoRetries ==
    \A p \in Callers :
        /\ \A op \in {"open", "write", "sleep", "read", "close"} : Count(p, op) <= 1
        /\ fn[p] = "Check" => IsPrefix(Ops(p), <<"open", "close">>)
        /\ AfterFailure(p) \subseteq {"close"}
        /\ Did(p, "open", FALSE) => Count(p, "write") + Count(p, "read") = 0
        /\ Did(p, "write", FALSE) => Count(p, "read") = 0

\* C16 witness: a query whose read failed has returned after a single pass,
\* and a check whose open failed has made its only other call.
C16_Witness ==
    \E p, q \in Callers :
        /\ fn[p] = "Query" /\ pc[p] = "returned" /\ Did(p, "read", FALSE)
        /\ Ops(p) = <<"open", "write", "sleep", "read", "close">>
        /\ fn[q] = "Check" /\ Did(q, "open", FALSE) /\ Ops(q) = <<"open", "close">>

\* C18: a close is attempted only on a handle that an open of the same
\* invocation returned: never on the nil handle of a failed open.
C18_CloseOnlyOpenedHandle ==
    \A p \in Callers :
        \A i \in 1..Len(Mine(p)) :
            Mine(p)[i].op = "close" =>
                /\ Mine(p)[i].dev = "open"
                /\ \E j \in 1..(i - 1) : Mine(p)[j].op = "open" /\ Mine(p)[j].ok

\* C17: when every transport call returns and no close fails, every
\* invocation of either function eventually returns, also one made after
\* another caller's query failed at open.
C17_EveryCallReturns ==
    \A p \in Callers : (pc[p] \notin {"idle", "returned"}) ~> (pc[p] = "returned")

\* The response that agrees with resp on the slot of channel c and holds b in
\* every other byte: byte 0, the slots of the other channels, bytes 22..63.
Outside(resp, c, b) ==
    [i \in FrameIdx |-> IF i \in (1 + 3 * c)..(3 + 3 * c) THEN resp[i] ELSE b]

\* C19: two responses that agree on the three bytes of the slot of channel c
\* decode to the same reading for channel c, whatever byte 0, bytes 22..63 and
\* the other channels' slots hold.
C19_ChannelIndependence ==
    decoded # <<>> =>
        \A c \in 0..6 : \A b \in EdgeBytes :
            getSensorDataFromBytes(Outside(frame, c, b))[c] = decoded[c]

\* C19 witness: a decoded response and one that agrees with it on the slot of
\* a present channel only: they differ in byte 0, in byte 63 and in the
\* reading of another channel.
C19_Witness ==
    /\ decoded # <<>>
    /\ \E c, d \in 0..6 :
         LET other == Outside(frame, c, 127)
         IN  /\ c # d
             /\ ~decoded[c].Absent
             /\ other[0] # frame[0] /\ other[63] # frame[63]
             /\ getSensorDataFromBytes(other)[d] # decoded[d]
             /\ getSensorDataFromBytes(other)[c] = decoded[c]

====
